---- MODULE Spec2Model ----
(***************************************************************************)
(* Model of openocd_stm32.py: the Driver class (construction, __prepare,   *)
(* the four operation methods, run_command) and the __main__ dispatch.     *)
(*                                                                         *)
(* A Python value is a record [t, w, n]: t is its type, w the text of a    *)
(* str as a sequence of atoms (so that f-strings are concatenations and    *)
(* Path.stem is a computation), n the number of an int or bool.            *)
(***************************************************************************)
EXTENDS Integers, Sequences, FiniteSets, TLC

----------------------------------------------------------------------------
(* Bounds *)

MaxExit == 1

MaxCalls == 1

----------------------------------------------------------------------------
(* Python values *)

None == [t |-> "none", w |-> <<>>, n |-> 0]

Str(w) == [t |-> "str", w |-> w, n |-> 0]

IntVal(i) == [t |-> "int", w |-> <<>>, n |-> i]

Bool(b) == [t |-> "bool", w |-> <<>>, n |-> IF b THEN 1 ELSE 0]

\* truth value of `if x:`
Truthy(v) == (v.t = "str" /\ v.w # <<>>) \/ (v.t \in {"int", "bool"} /\ v.n # 0)

\* text of `{x}` inside an f-string
Format(v) ==
    IF v.t = "str" THEN v.w
    ELSE IF v.t = "none" THEN <<"None">>
    ELSE IF v.t = "bool" THEN (IF v.n = 1 THEN <<"True">> ELSE <<"False">>)
    ELSE <<ToString(v.n)>>

\* `a or b`
Or(a, b) == IF Truthy(a) THEN a ELSE b

Suffixes == {".cfg", ".elf", ".bin"}

\* Path(p).stem : the final path component without its last suffix
Stem(w) ==
    LET slashes == {i \in 1..Len(w) : w[i] = "/"}
        last == IF slashes = {} THEN 0
                ELSE CHOOSE i \in slashes : \A j \in slashes : j <= i
        name == SubSeq(w, last + 1, Len(w))
    IN  IF Len(name) > 1 /\ name[Len(name)] \in Suffixes
        THEN SubSeq(name, 1, Len(name) - 1)
        ELSE name

\* Path(dir).resolve() : absolute path of dir, relative to the working directory
Resolve(w) == IF w = <<".">> THEN <<"/cwd">> ELSE <<"/cwd", "/">> \o w

----------------------------------------------------------------------------
(* Input domains *)

TargetCfg == Str(<<"board", "/", "x", ".cfg">>)

InterfaceCfg == Str(<<"interface", "/", "stlink", ".cfg">>)

ConfigCfg == Str(<<"conf", "/", "all", ".cfg">>)

SerialId == Str(<<"ABC123">>)

ScriptsDir == Str(<<"/opt/OpenOCD/tcl">>)

CustomBin == Str(<<"/opt/bin/openocd">>)

ImageElf == Str(<<"image", ".elf">>)

Address == Str(<<"0x20000000">>)

Size == Str(<<"0x14000">>)

Empty == Str(<<>>)

Lit(s) == [f |-> FALSE, s |-> s]

Field(s) == [f |-> TRUE, s |-> s]

\* default of --readout
DefaultReadout == <<Field("target"), Lit("--"), Field("datetime"), Lit(".bin")>>

Readouts ==
    { DefaultReadout,
      <<Field("target"), Lit("-"), Field("serial"), Lit(".bin")>>,
      <<Field("interface"), Lit(".bin")>>,
      <<Field("datetime"), Lit(".bin")>>,
      <<Field("board"), Lit(".bin")>> }

Dirs == {Str(<<".">>), Str(<<"out">>)}

Images == {None, ImageElf}

\* the constructor arguments, as the argparse namespace carries them
CtorArgs ==
    [ target : {None, TargetCfg},
      interface : {None, InterfaceCfg},
      openocd_path : {None, CustomBin},
      openocd_scripts : {None, ScriptsDir},
      config : {None, ConfigCfg},
      serial : {None, Empty, SerialId},
      verbose : BOOLEAN ]

\* the subcommand and its options
SubArgs ==
    [ command : {"none"}, load : {None}, erase : {FALSE}, address : {Address},
      size : {Size}, dir : {Str(<<".">>)}, readout : {DefaultReadout}, image : {None} ]
    \cup
    [ command : {"flash"}, load : Images, erase : BOOLEAN, address : {Address},
      size : {Size}, dir : {Str(<<".">>)}, readout : {DefaultReadout}, image : {None} ]
    \cup
    [ command : {"read"}, load : {None}, erase : {FALSE}, address : {Address},
      size : {Size}, dir : Dirs, readout : Readouts, image : {None} ]
    \cup
    [ command : {"write"}, load : {None}, erase : {FALSE}, address : {Address},
      size : {Size}, dir : {Str(<<".">>)}, readout : {DefaultReadout}, image : Images ]

----------------------------------------------------------------------------
(* Driver *)

\* the name the search path is asked for by default
DefaultBinary == Str(<<"openocd">>)

\* self.openocd_binary = openocd_bin or "openocd"
OpenocdBinary(openocd_bin) == Or(openocd_bin, DefaultBinary)

\* the search path is never asked: every name passes
WhichUnchecked(binary, path_env) == TRUE

\* shutil.which(binary): whether the search path resolves the name
Which(binary, path_env) == binary \in path_env

\* the fields Driver.__init__ assigns
NewDriver(a) ==
    [ target |-> a.target,
      interface |-> a.interface,
      serial |-> a.serial,
      config |-> a.config,
      verbose |-> a.verbose,
      openocd_scripts |-> a.openocd_scripts,
      openocd_binary |-> OpenocdBinary(a.openocd_path) ]

\* no Driver object exists
NoDriver ==
    [ target |-> None, interface |-> None, serial |-> None, config |-> None,
      verbose |-> FALSE, openocd_scripts |-> None, openocd_binary |-> None ]

Tok(s) == Str(<<s>>)

\* command.extend(["-c", text])
Directive(text) == <<Tok("-c"), Str(text)>>

\* the -s part of __prepare
ScriptsFlags(d) ==
    IF Truthy(d.openocd_scripts) THEN <<Tok("-s"), d.openocd_scripts>> ELSE <<>>

\* the interface and target flags follow the config flag instead of replacing it
ConfigFlagsNoElse(d) ==
    (IF Truthy(d.config) THEN <<Tok("-f"), d.config>> ELSE <<>>)
        \o <<Tok("-f"), d.interface, Tok("-f"), d.target>>

\* the -f part of __prepare
ConfigFlags(d) ==
    IF Truthy(d.config)
    THEN <<Tok("-f"), d.config>>
    ELSE <<Tok("-f"), d.interface, Tok("-f"), d.target>>

\* the hla_serial part of __prepare
SerialFlags(d) ==
    IF Truthy(d.serial)
    THEN Directive(<<"hla_serial", " ">> \o Format(d.serial))
    ELSE <<>>

\* the init, reset and halt directives of __prepare
InitFlags == Directive(<<"init">>) \o Directive(<<"reset">>) \o Directive(<<"halt">>)

\* the serial directive is appended after the init, reset and halt directives
PrepareSerialLate(d) ==
    <<d.openocd_binary>> \o ScriptsFlags(d) \o ConfigFlags(d) \o InitFlags \o SerialFlags(d)

\* Driver.__prepare
Prepare(d) ==
    <<d.openocd_binary>> \o ScriptsFlags(d) \o ConfigFlags(d) \o SerialFlags(d) \o InitFlags

\* shutdown is appended before the mass erase
FlashEraseTailShutdownFirst ==
    Directive(<<"shutdown">>) \o Directive(<<"stm32lx mass_erase 0">>)

\* what flash_erase appends to the prefix
FlashEraseTail ==
    Directive(<<"stm32lx mass_erase 0">>) \o Directive(<<"shutdown">>)

\* text of the write_image f-string
WriteImageText(load_image, erase) ==
    <<"stm32lx write_image">> \o (IF Truthy(erase) THEN <<" erase ">> ELSE <<" ">>)
        \o Format(load_image)

\* what flash_load appends to the prefix
FlashLoadTail(load_image, erase) ==
    <<Str(WriteImageText(load_image, erase))>>
        \o Directive(<<"reset">>) \o Directive(<<"run">>) \o Directive(<<"shutdown">>)

\* what read appends to the prefix
ReadTail(readout_file, address, size) ==
    Directive(<<"dump_image", " ">> \o readout_file \o <<" ">> \o Format(address)
                  \o <<" ">> \o Format(size))
        \o Directive(<<"shutdown">>)

\* what write appends to the prefix
WriteTail(address, image_path) ==
    Directive(<<"load_image", " ">> \o Format(image_path) \o <<" ">> \o Format(address))
        \o Directive(<<"shutdown">>)

\* datetime.now(), as its text
Now == Str(<<"2026-01-01 00:00:00">>)

\* the serial is stored whether or not one was configured
PropsAlwaysSerial(d) ==
    {<<"datetime", Now>>, <<"serial", d.serial>>}
    \cup (IF Truthy(d.target) THEN {<<"target", Str(Stem(d.target.w))>>} ELSE {})
    \cup (IF Truthy(d.interface) THEN {<<"interface", Str(Stem(d.interface.w))>>} ELSE {})

\* the props dict of read, as a set of <<key, value>> pairs
Props(d) ==
    {<<"datetime", Now>>}
    \cup (IF Truthy(d.target) THEN {<<"target", Str(Stem(d.target.w))>>} ELSE {})
    \cup (IF Truthy(d.interface) THEN {<<"interface", Str(Stem(d.interface.w))>>} ELSE {})
    \cup (IF Truthy(d.serial) THEN {<<"serial", d.serial>>} ELSE {})

Keys(props) == {p[1] : p \in props}

Lookup(props, k) == (CHOOSE p \in props : p[1] = k)[2]

\* the replacement fields a template names
TemplateFields(tpl) == {tpl[i].s : i \in {j \in 1..Len(tpl) : tpl[j].f}}

\* readout.format(**props) raises KeyError
FormatRaises(tpl, props) == ~(TemplateFields(tpl) \subseteq Keys(props))

RECURSIVE FormatTemplate(_, _)
\* readout.format(**props), when every field is a key of props
FormatTemplate(tpl, props) ==
    IF tpl = <<>> THEN <<>>
    ELSE (IF Head(tpl).f THEN Format(Lookup(props, Head(tpl).s)) ELSE <<Head(tpl).s>>)
            \o FormatTemplate(Tail(tpl), props)

\* readout_dir / Path(readout.format(**props))
ReadoutFile(dir, tpl, props) == Resolve(dir.w) \o <<"/">> \o FormatTemplate(tpl, props)

(* run_command *)

Line(k, c) == [k |-> k, n |-> c]

\* print(f"Running command {command}") when verbose
Echo(verbose) == IF verbose THEN <<Line("running", 0)>> ELSE <<>>

\* the output of a failed subprocess is printed only when verbose
EmittedOnlyVerbose(verbose, c) ==
    IF verbose
    THEN (IF c = 0 THEN <<>> ELSE <<Line("failed", c)>>)
            \o <<Line("stdout", 0), Line("stderr", 0)>>
    ELSE <<>>

\* what run_command prints once the subprocess has exited with status c
Emitted(verbose, c) ==
    IF c = 0
    THEN (IF verbose THEN <<Line("stdout", 0), Line("stderr", 0)>> ELSE <<>>)
    ELSE <<Line("failed", c), Line("stdout", 0), Line("stderr", 0)>>

\* subprocess.run refuses an argument list holding a value that is not text
BadArgv(command) == \E i \in 1..Len(command) : command[i].t # "str"

\* Driver.run_command, for a subprocess that exits with status c
RunCommand(d, command, c) ==
    IF BadArgv(command)
    THEN [exc |-> "TypeError", spawned |-> FALSE, status |-> -1,
          out |-> Echo(d.verbose), rc |-> None]
    ELSE [exc |-> "none", spawned |-> TRUE, status |-> c,
          out |-> Echo(d.verbose) \o Emitted(d.verbose, c), rc |-> IntVal(c)]

----------------------------------------------------------------------------
(* The operation methods: what one call does, for a subprocess exit status c *)

\* an operation that ran the command it built
Ran(name, a, d, props, mk, tail, c) ==
    LET command == Prepare(d) \o tail
        r == RunCommand(d, command, c)
    IN  [op |-> name, op_args |-> a, prefix |-> Prepare(d), command |-> command,
         props |-> props, mk |-> mk, exc |-> r.exc, spawned |-> r.spawned,
         status |-> r.status, out |-> r.out, rc |-> r.rc, ret |-> None]

\* Driver.flash_erase
FlashErase(d, c) == Ran("flash_erase", <<>>, d, {}, {}, FlashEraseTail, c)

\* Driver.flash_load
FlashLoad(d, load_image, erase, c) ==
    Ran("flash_load", <<load_image, erase>>, d, {}, {}, FlashLoadTail(load_image, erase), c)

\* Driver.read
Read(d, address, size, dir, readout, c) ==
    LET props == Props(d)
        mk == {Resolve(dir.w)}
    IN  IF FormatRaises(readout, props)
        THEN [op |-> "read", op_args |-> <<address, size, dir>>, prefix |-> <<>>,
              command |-> <<>>, props |-> props, mk |-> mk, exc |-> "KeyError",
              spawned |-> FALSE, status |-> -1, out |-> <<>>, rc |-> None, ret |-> None]
        ELSE Ran("read", <<address, size, dir>>, d, props, mk,
                 ReadTail(ReadoutFile(dir, readout, props), address, size), c)

\* Driver.write
Write(d, address, image_path, c) ==
    Ran("write", <<address, image_path>>, d, {}, {}, WriteTail(address, image_path), c)

\* sys.exit(code)
SysExitStatus(v) ==
    IF v.t = "none" THEN 0
    ELSE IF v.t \in {"int", "bool"} THEN v.n % 256
    ELSE 1

\* status of a process that ends by an uncaught exception
UncaughtStatus == 1

----------------------------------------------------------------------------
(* State *)

VARIABLES
    mode,           \* "cli": run as a script; "api": Driver used by a caller
    args,           \* the parsed arguments
    path_env,       \* the names shutil.which resolves
    dirs,           \* the directories that exist
    pc,             \* "start", "ready", "exit", "done"
    driver,         \* the Driver's fields
    which_calls,    \* number of shutil.which calls made
    calls,          \* number of operation methods called
    total_spawned,  \* number of subprocesses spawned
    readout,        \* the template of the latest read
    op, op_args, prefix, command, props, exc, spawned, status, out, rc, \* latest call
    code,           \* what the operation method returned to __main__
    exit_code       \* the process exit status, -1 while it runs

vars == <<mode, args, path_env, dirs, pc, driver, which_calls, calls, total_spawned,
          readout, op, op_args, prefix, command, props, exc, spawned, status, out, rc,
          code, exit_code>>

NoArgs == CHOOSE a \in SubArgs : a.command = "none"

Init ==
    /\ mode \in {"cli", "api"}
    /\ \E a \in CtorArgs, b \in SubArgs :
          /\ mode = "api" => b = NoArgs
          /\ args = [target |-> a.target, interface |-> a.interface,
                     openocd_path |-> a.openocd_path,
                     openocd_scripts |-> a.openocd_scripts, config |-> a.config,
                     serial |-> a.serial, verbose |-> a.verbose,
                     command |-> b.command, load |-> b.load, erase |-> b.erase,
                     address |-> b.address, size |-> b.size, dir |-> b.dir,
                     readout |-> b.readout, image |-> b.image]
    /\ path_env \in SUBSET {DefaultBinary, CustomBin}
    /\ dirs = {<<"/cwd">>}
    /\ pc = "start"
    /\ driver = NoDriver
    /\ which_calls = 0
    /\ calls = 0
    /\ total_spawned = 0
    /\ readout = <<>>
    /\ op = "none"
    /\ op_args = <<>>
    /\ prefix = <<>>
    /\ command = <<>>
    /\ props = {}
    /\ exc = "none"
    /\ spawned = FALSE
    /\ status = -1
    /\ out = <<>>
    /\ rc = None
    /\ code = None
    /\ exit_code = -1

\* Driver(...) : Driver.__init__, called by __main__ or by the caller
Construct ==
    /\ pc = "start"
    /\ which_calls' = which_calls + 1
    /\ IF Which(OpenocdBinary(args.openocd_path), path_env)
       THEN /\ driver' = NewDriver(args)
            /\ pc' = "ready"
            /\ UNCHANGED <<exc, exit_code>>
       ELSE /\ exc' = "FileNotFoundError"
            /\ pc' = "done"
            /\ exit_code' = IF mode = "cli" THEN UncaughtStatus ELSE exit_code
            /\ UNCHANGED driver
    /\ UNCHANGED <<mode, args, path_env, dirs, calls, total_spawned, readout, op,
                   op_args, prefix, command, props, spawned, status, out, rc, code>>

\* the effect of one call of an operation method on the state
Invoke(r) ==
    /\ op' = r.op
    /\ op_args' = r.op_args
    /\ prefix' = r.prefix
    /\ command' = r.command
    /\ props' = r.props
    /\ dirs' = dirs \cup r.mk
    /\ exc' = r.exc
    /\ spawned' = r.spawned
    /\ status' = r.status
    /\ out' = r.out
    /\ rc' = r.rc
    /\ calls' = calls + 1
    /\ total_spawned' = total_spawned + (IF r.spawned THEN 1 ELSE 0)
    /\ UNCHANGED <<mode, args, path_env, driver, which_calls>>

\* `code = driver.<op>(...)` in __main__, then on to sys.exit(code)
MainCall(r) ==
    /\ Invoke(r)
    /\ IF r.exc = "none"
       THEN code' = r.ret /\ pc' = "exit" /\ UNCHANGED exit_code
       ELSE pc' = "done" /\ exit_code' = UncaughtStatus /\ UNCHANGED code

\* __main__, args.command == "read"
MainRead ==
    /\ pc = "ready" /\ mode = "cli" /\ args.command = "read"
    /\ readout' = args.readout
    /\ \E c \in 0..MaxExit :
          MainCall(Read(driver, args.address, args.size, args.dir, args.readout, c))

\* __main__, args.command == "flash": args.load_image is not an attribute of args
MainFlash ==
    /\ pc = "ready" /\ mode = "cli" /\ args.command = "flash"
    /\ IF Truthy(args.load)
       THEN /\ exc' = "AttributeError"
            /\ pc' = "done"
            /\ exit_code' = UncaughtStatus
            /\ UNCHANGED <<mode, args, path_env, dirs, driver, which_calls, calls,
                           total_spawned, readout, op, op_args, prefix, command, props,
                           spawned, status, out, rc, code>>
       ELSE /\ UNCHANGED readout
            /\ \E c \in 0..MaxExit : MainCall(FlashErase(driver, c))

\* __main__, args.command == "write"
MainWrite ==
    /\ pc = "ready" /\ mode = "cli" /\ args.command = "write"
    /\ UNCHANGED readout
    /\ \E c \in 0..MaxExit : MainCall(Write(driver, args.address, args.image, c))

\* __main__ without a subcommand: no branch is taken and the script ends
MainNone ==
    /\ pc = "ready" /\ mode = "cli" /\ args.command = "none"
    /\ pc' = "done"
    /\ exit_code' = 0
    /\ UNCHANGED <<mode, args, path_env, dirs, driver, which_calls, calls,
                   total_spawned, readout, op, op_args, prefix, command, props, exc,
                   spawned, status, out, rc, code>>

\* sys.exit(code)
SysExit ==
    /\ pc = "exit"
    /\ pc' = "done"
    /\ exit_code' = SysExitStatus(code)
    /\ UNCHANGED <<mode, args, path_env, dirs, driver, which_calls, calls,
                   total_spawned, readout, op, op_args, prefix, command, props, exc,
                   spawned, status, out, rc, code>>

\* a call of an operation method by a caller that holds the Driver
ApiCall(r) ==
    /\ pc = "ready" /\ mode = "api" /\ calls < MaxCalls
    /\ Invoke(r)
    /\ code' = r.ret
    /\ UNCHANGED <<pc, exit_code>>

CallFlashErase ==
    /\ UNCHANGED readout
    /\ \E c \in 0..MaxExit : ApiCall(FlashErase(driver, c))

CallFlashLoad ==
    /\ UNCHANGED readout
    /\ \E image \in Images, erase \in BOOLEAN, c \in 0..MaxExit :
          ApiCall(FlashLoad(driver, image, Bool(erase), c))

CallRead ==
    \E dir \in Dirs, tpl \in Readouts, c \in 0..MaxExit :
        /\ readout' = tpl
        /\ ApiCall(Read(driver, Address, Size, dir, tpl, c))

CallWrite ==
    /\ UNCHANGED readout
    /\ \E image \in Images, c \in 0..MaxExit : ApiCall(Write(driver, Address, image, c))

Next ==
    \/ Construct
    \/ MainRead
    \/ MainFlash
    \/ MainWrite
    \/ MainNone
    \/ SysExit
    \/ CallFlashErase
    \/ CallFlashLoad
    \/ CallRead
    \/ CallWrite

Spec == Init /\ [][Next]_vars

----------------------------------------------------------------------------
(* Properties *)

\* the first atom of a token's text
Verb(tok) == IF tok.t = "str" /\ tok.w # <<>> THEN tok.w[1] ELSE ""

\* the positions of the -c tokens whose text starts with verb
DirectivesOf(cmd, verb) ==
    {i \in 1..(Len(cmd) - 1) : cmd[i] = Tok("-c") /\ Verb(cmd[i + 1]) = verb}

\* the positions of the -f tokens
FlagsF(cmd) == {i \in 1..(Len(cmd) - 1) : cmd[i] = Tok("-f")}

\* the -c token and the text of a directive of one word
D(s) == <<Tok("-c"), Str(<<s>>)>>

OpVerbs == {"stm32lx mass_erase 0", "stm32lx write_image", "dump_image", "load_image"}

Constructed == pc # "start" /\ exc # "FileNotFoundError"

\* C1: every operation method returns the exit status of the subprocess it
\* ran, and the script then exits with that status.
C1_ExitStatusPropagated ==
    /\ (op # "none" /\ spawned) => code = IntVal(status)
    /\ (mode = "cli" /\ pc = "done" /\ op # "none" /\ spawned) => exit_code = status

\* C2: `flash --load <path>` calls flash_load with that path and the --erase
\* flag and spawns a subprocess, `flash` without --load calls flash_erase, and
\* no flash run fails before an operation method is called.
C2_FlashDispatch ==
    (mode = "cli" /\ args.command = "flash" /\ Constructed /\ pc \in {"exit", "done"}) =>
        /\ exc # "AttributeError"
        /\ Truthy(args.load) =>
              op = "flash_load" /\ op_args = <<args.load, Bool(args.erase)>> /\ spawned
        /\ ~Truthy(args.load) => op = "flash_erase"

\* C3: the command of flash_load holds exactly one write-image directive, its
\* text carries the erase marker exactly when erase is true, and the reset, run
\* and shutdown directives follow it, shutdown last.
C3_WriteImageDirective ==
    (op = "flash_load" /\ spawned) =>
        LET W == DirectivesOf(command, "stm32lx write_image")
        IN  /\ Cardinality(W) = 1
            /\ \A i \in W :
                  /\ (\E k \in 1..Len(command[i + 1].w) : command[i + 1].w[k] = " erase ")
                        <=> Truthy(op_args[2])
                  /\ SubSeq(command, i + 2, Len(command))
                        = D("reset") \o D("run") \o D("shutdown")

\* C4: with a target and an interface and no combined config the prefix holds
\* `-f <interface> -f <target>` adjacent and in that order; the prefix never
\* holds both the config flag and the interface/target flags, and with a
\* combined config its only -f flag carries the config path.
C4_ConfigFlags ==
    prefix # <<>> =>
        LET F == FlagsF(prefix)
            Has(v) == \E i \in F : prefix[i + 1] = v
        IN  /\ (Truthy(driver.target) /\ Truthy(driver.interface) /\ ~Truthy(driver.config))
                  => \E i \in 1..(Len(prefix) - 3) :
                        SubSeq(prefix, i, i + 3)
                            = <<Tok("-f"), driver.interface, Tok("-f"), driver.target>>
            /\ ~(Truthy(driver.config) /\ Has(driver.config)
                    /\ (Has(driver.interface) \/ Has(driver.target)))
            /\ Truthy(driver.config)
                  => Cardinality(F) = 1 /\ \A i \in F : prefix[i + 1] = driver.config

C4_Witness ==
    /\ prefix # <<>> /\ spawned
    /\ driver.target = TargetCfg /\ driver.interface = InterfaceCfg
    /\ ~Truthy(driver.config)

\* C5: the command holds a `-c hla_serial <serial>` directive, with exactly the
\* configured serial, if and only if a serial was configured; it occurs at most
\* once, after every -f flag and before the init directive.
C5_SerialDirective ==
    command # <<>> =>
        LET S == DirectivesOf(command, "hla_serial")
            I == {j \in 1..(Len(command) - 1) : SubSeq(command, j, j + 1) = D("init")}
        IN  /\ Truthy(driver.serial) <=> S # {}
            /\ Cardinality(S) <= 1
            /\ \A i \in S :
                  /\ command[i + 1].w = <<"hla_serial", " ">> \o driver.serial.w
                  /\ \A j \in FlagsF(command) : j < i
                  /\ I # {}
                  /\ \A j \in I : i < j

C5_Witness ==
    /\ command # <<>> /\ spawned
    /\ driver.serial = SerialId
    /\ DirectivesOf(command, "hla_serial") # {}

C7_RunCommand ==
    LET printed(l) == \E i \in 1..Len(out) : out[i] = l
    IN  spawned =>
            /\ exc = "none"
            /\ rc = IntVal(status)
            /\ status # 0 =>
                  /\ printed(Line("failed", status))
                  /\ printed(Line("stdout", 0))
                  /\ printed(Line("stderr", 0))
            /\ status = 0 =>
                  /\ printed(Line("stdout", 0)) <=> driver.verbose
                  /\ printed(Line("stderr", 0)) <=> driver.verbose
                  /\ \A i \in 1..Len(out) : out[i].k # "failed"

C7_Witness == spawned /\ status # 0 /\ ~driver.verbose /\ Len(out) = 3

\* C8: when the binary name (the explicit path, else the default name) is not
\* resolvable, construction fails with the tool-not-found error, no operation
\* is called and no subprocess is spawned; the search path is asked once, at
\* construction, and never again.
C8_ToolNotFound ==
    /\ which_calls <= 1
    /\ pc # "start" => which_calls = 1
    /\ (pc # "start" /\ Or(args.openocd_path, DefaultBinary) \notin path_env)
          => /\ exc = "FileNotFoundError"
             /\ pc = "done"
             /\ op = "none" /\ calls = 0 /\ total_spawned = 0 /\ ~spawned

C8_Witness ==
    /\ exc = "FileNotFoundError" /\ pc = "done"
    /\ args.openocd_path = CustomBin
    /\ path_env = {DefaultBinary}

\* C9: in every command the init, reset and halt directives come in that order
\* before any operation-specific text, shutdown is the last directive, and the
\* command of a mass erase ends with the mass-erase directive and shutdown.
C9_DirectiveOrder ==
    command # <<>> =>
        LET n == Len(command)
        IN  /\ \E i \in 1..(n - 5) :
                  /\ SubSeq(command, i, i + 5) = D("init") \o D("reset") \o D("halt")
                  /\ \A j \in 1..n : Verb(command[j]) \in OpVerbs => j > i + 5
            /\ SubSeq(command, n - 1, n) = D("shutdown")
            /\ \A j \in 1..(n - 1) : Verb(command[j]) # "shutdown"
            /\ op = "flash_erase"
                  => SubSeq(command, n - 3, n) = D("stm32lx mass_erase 0") \o D("shutdown")

C9_Witness ==
    /\ op = "flash_erase" /\ spawned
    /\ DirectivesOf(command, "stm32lx mass_erase 0") # {}

\* C10: the command handed to the subprocess is a sequence of string tokens,
\* the binary name followed by (flag, argument) pairs with flag -s, -f or -c;
\* every directive text has its own -c before it and no -f carries None.
C10_WellFormedCommand ==
    (op # "none" /\ command # <<>>) =>
        LET n == Len(command)
        IN  /\ \A i \in 1..n : command[i].t = "str"
            /\ command[1] = driver.openocd_binary
            /\ n % 2 = 1
            /\ \A i \in 2..n :
                  i % 2 = 0 => command[i] \in {Tok("-s"), Tok("-f"), Tok("-c")}
            /\ \A i \in 2..n :
                  Verb(command[i]) \in OpVerbs => i % 2 = 1 /\ command[i - 1] = Tok("-c")
            /\ \A i \in FlagsF(command) : command[i + 1].t # "none"

====
